---------------------------- MODULE Spec2Model ----------------------------
(***************************************************************************)
(* A model of qapper, a ping-gated TCP port scanner.                       *)
(*                                                                         *)
(*   ports.rs    Ports::from_str, PortsStatus (record, sort, fmt_vec,      *)
(*               Display)                                                  *)
(*   scanner.rs  PortScanner::new / ScannerInner::create_pingers,          *)
(*               PortScanner::scan, ScannerInner::scan_ip, check_port,     *)
(*               ping                                                      *)
(*                                                                         *)
(* Strings are sequences of one-character strings, so that parsing and     *)
(* formatting are computed character by character as the code does.        *)
(***************************************************************************)
EXTENDS Integers, Sequences, FiniteSets, TLC

VARIABLES
    \* ---- Ports::from_str
    toks,            \* how the specification text was put together (ghost)
    value,           \* the text handed to from_str
    overflowChecks,  \* whether the build traps integer overflow (debug) or wraps
    parsed,          \* NotParsed before the call, then the call's outcome
    \* ---- PortsStatus and its Display
    status,          \* [open, closed]: the two Vec<u16> of a PortsStatus
    rendered,        \* NotRendered before the call, then the text written
    \* ---- the environment of a run
    addrs,           \* the target address list
    ports,           \* the parsed PortSet (Ports)
    icmp4ok,         \* whether an ICMP-v4 socket can be opened
    icmp6ok,         \* whether an ICMP-v6 socket can be opened
    \* ---- PortScanner
    built,           \* NotBuilt, then the outcome of PortScanner::new
    scanPc,          \* where PortScanner::scan is
    next,            \* the spawn loop's position in addrs (1-based)
    tasks,           \* one scan_ip task per position of addrs
    handles,         \* handles[i][j]: the check_port task of position j of ports
    chan,            \* the queue of the mpsc channel
    senders,         \* how many Sender clones are alive
    rxOpen,          \* whether the Receiver is alive
    cur,             \* the PortOutcome the consumer loop holds
    calls,           \* how often on_checked was called with each outcome
    map,             \* the HashMap<IpAddr, PortsStatus> of scan
    \* ---- the spawn loop of scan over a long target list
    total,           \* addrs.len()
    pos,             \* two positions of the list that are followed (0-based)
    ids              \* the ProbeIdentifier given to each of them, or NoId

parseVars == <<toks, value, parsed>>
fmtVars == <<status, rendered>>
envVars == <<addrs, ports, icmp4ok, icmp6ok>>
scanVars == <<built, scanPc, next, tasks, handles, chan, senders, rxOpen, cur, calls, map>>

idVars == <<total, pos, ids>>

vars == <<overflowChecks, parseVars, fmtVars, envVars, scanVars, idVars>>

(***************************************************************************)
(* Bounds of the model and constants of the program                        *)
(***************************************************************************)
MaxTokens == 2
MaxRecorded == 5
MaxAddrs == 2
MaxPorts == 2
\* The most connect attempts of one run: Len(addrs) * Len(ports)
MaxAttempts == 4
\* The channel's capacity, mpsc::channel(100) in the code, scaled down so
\* that producers do find the channel full.
ChanCap == 1

U16Max == 65535

\* How far around 0 and around u16::MAX the followed positions are drawn
IdxSpread == 2

(***************************************************************************)
(* Helpers on sequences                                                    *)
(***************************************************************************)
RECURSIVE SeqsUpTo(_, _)
SeqsUpTo(S, n) ==
    IF n = 0 THEN {<<>>}
    ELSE LET shorter == SeqsUpTo(S, n - 1)
         IN  shorter \cup {Append(s, x) : s \in {t \in shorter : Len(t) = n - 1}, x \in S}

Count(s, x) == Cardinality({i \in 1..Len(s) : s[i] = x})

(***************************************************************************)
(* Decimal text                                                            *)
(***************************************************************************)
Digits == <<"0", "1", "2", "3", "4", "5", "6", "7", "8", "9">>

IsDigit(c) == \E d \in 1..10 : Digits[d] = c

DigitVal(c) == (CHOOSE d \in 1..10 : Digits[d] = c) - 1

\* Rust's Display for an unsigned integer: decimal, no sign, no leading zeros.
RECURSIVE ToDec(_)
ToDec(n) == IF n < 10 THEN <<Digits[n + 1]>>
            ELSE Append(ToDec(n \div 10), Digits[(n % 10) + 1])

\* str::parse::<u16>: an optional leading "+", then one or more decimal
\* digits, the value checked against u16::MAX digit by digit.
RECURSIVE ParseDigits(_, _)
ParseDigits(s, acc) ==
    IF s = <<>> THEN [ok |-> TRUE, val |-> acc]
    ELSE IF ~IsDigit(Head(s)) THEN [ok |-> FALSE, val |-> 0]
    ELSE LET shifted == acc * 10 + DigitVal(Head(s))
         IN  IF shifted > U16Max THEN [ok |-> FALSE, val |-> 0]
             ELSE ParseDigits(Tail(s), shifted)

ParseU16(s) ==
    IF s = <<>> THEN [ok |-> FALSE, val |-> 0]
    ELSE IF Len(s) = 1 /\ Head(s) \in {"+", "-"} THEN [ok |-> FALSE, val |-> 0]
    ELSE IF Head(s) = "+" THEN ParseDigits(Tail(s), 0)
    ELSE ParseDigits(s, 0)

(***************************************************************************)
(* str::split and str::split_once                                          *)
(***************************************************************************)
\* The index of the first occurrence of c in s, 0 when there is none.
FirstIndex(s, c) ==
    IF \E i \in 1..Len(s) : s[i] = c
    THEN CHOOSE i \in 1..Len(s) : s[i] = c /\ \A j \in 1..(i - 1) : s[j] # c
    ELSE 0

\* value.split(','): always at least one part, the parts may be empty.
RECURSIVE Split(_, _)
Split(s, c) ==
    LET i == FirstIndex(s, c)
    IN  IF i = 0 THEN <<s>>
        ELSE <<SubSeq(s, 1, i - 1)>> \o Split(SubSeq(s, i + 1, Len(s)), c)

(***************************************************************************)
(* impl FromStr for Ports                                                  *)
(***************************************************************************)
Range(lower, upper) == [i \in 1..(upper - lower + 1) |-> lower + i - 1]

NotParsed == [kind |-> "none", ports |-> <<>>, why |-> "none"]
ParseOk(ps) == [kind |-> "ok", ports |-> ps, why |-> "none"]
ParseErr == [kind |-> "err", ports |-> <<>>, why |-> "ParseIntError"]
ParsePanic(why) == [kind |-> "panic", ports |-> <<>>, why |-> why]

\* One iteration of `for part in value.split(',')`: the outcome of the match
\* on part.split_once('-'), given what was parsed so far.
FromStrPart(part, sofar, checks) ==
    LET dash == FirstIndex(part, "-")
    IN  IF dash # 0
        THEN LET lower == ParseU16(SubSeq(part, 1, dash - 1))
                 upper == ParseU16(SubSeq(part, dash + 1, Len(part)))
             IN  IF ~lower.ok \/ ~upper.ok THEN ParseErr
                 ELSE IF ~(lower.val <= upper.val) THEN ParsePanic("assert")
                 \* parsed.reserve((upper - lower + 1).into()): the sum is a u16
                 ELSE IF (upper.val - lower.val) + 1 > U16Max /\ checks
                      THEN ParsePanic("overflow")
                 ELSE ParseOk(sofar \o Range(lower.val, upper.val))
        ELSE LET port == ParseU16(part)
             IN  IF ~port.ok THEN ParseErr ELSE ParseOk(Append(sofar, port.val))

RECURSIVE FromStrLoop(_, _, _)
FromStrLoop(parts, sofar, checks) ==
    IF parts = <<>> THEN ParseOk(sofar)
    ELSE LET r == FromStrPart(Head(parts), sofar, checks)
         IN  IF r.kind # "ok" THEN r
             ELSE FromStrLoop(Tail(parts), r.ports, checks)

FromStr(text, checks) == FromStrLoop(Split(text, ","), <<>>, checks)

(***************************************************************************)
(* The specification texts the parser is run on                            *)
(***************************************************************************)
PortTok(n) == [kind |-> "port", lo |-> n, hi |-> n, text |-> ToDec(n)]
RangeTok(lo, hi) ==
    [kind |-> "range", lo |-> lo, hi |-> hi, text |-> ToDec(lo) \o <<"-">> \o ToDec(hi)]
RawTok(text) == [kind |-> "raw", lo |-> 0, hi |-> 0, text |-> text]

SampleTokens ==
    {PortTok(80), PortTok(21), PortTok(0), PortTok(65535), PortTok(65536)}
    \cup {RangeTok(20, 22), RangeTok(22, 20), RangeTok(21, 21),
          RangeTok(65534, 65535), RangeTok(0, 65535), RangeTok(1, 65536)}
    \cup {RawTok(<<>>), RawTok(<<"a", "b", "c">>), RawTok(<<"+", "5">>),
          RawTok(<<"-", "5">>), RawTok(<<"1", "-", "2", "-", "3">>),
          RawTok(<<"0", "8", "0">>), RawTok(<<" ", "8", "0">>)}

RECURSIVE Join(_)
Join(ts) ==
    IF ts = <<>> THEN <<>>
    ELSE IF Len(ts) = 1 THEN ts[1].text
    ELSE ts[1].text \o <<",">> \o Join(Tail(ts))

\* A token the specification calls well formed: a 16-bit port, or a range
\* lower-upper of 16-bit values with lower <= upper.
WellFormedTok(t) ==
    /\ t.kind \in {"port", "range"}
    /\ t.lo <= t.hi
    /\ t.hi <= U16Max

WellFormed(ts) == ts # <<>> /\ \A i \in 1..Len(ts) : WellFormedTok(ts[i])

Expansion(t) == Range(t.lo, t.hi)

RECURSIVE Expansions(_)
Expansions(ts) ==
    IF ts = <<>> THEN <<>> ELSE Expansion(Head(ts)) \o Expansions(Tail(ts))

ParseIdle == toks = <<>> /\ value = <<>> /\ parsed = NotParsed

ParseInit ==
    /\ toks \in (SeqsUpTo(SampleTokens, MaxTokens) \ {<<>>})
    /\ value = Join(toks)
    /\ parsed = NotParsed

ParseCall ==
    /\ parsed.kind = "none"
    /\ parsed' = FromStr(value, overflowChecks)
    /\ UNCHANGED <<toks, value, overflowChecks>>

(***************************************************************************)
(* PortsStatus: record, sort, fmt_vec and Display                          *)
(***************************************************************************)
PortsStatusNew == [open |-> <<>>, closed |-> <<>>]

\* Mutant of Record: a closed port is not recorded.
RecordOpenOnly(st, port, open) ==
    IF open THEN [st EXCEPT !.open = Append(@, port)] ELSE st

Record(st, port, open) ==
    IF open THEN [st EXCEPT !.open = Append(@, port)]
    ELSE [st EXCEPT !.closed = Append(@, port)]

\* Vec::sort: ascending, equal elements kept.
RECURSIVE Insert(_, _)
Insert(s, x) ==
    IF s = <<>> THEN <<x>>
    ELSE IF x < Head(s) THEN <<x>> \o s
    ELSE <<Head(s)>> \o Insert(Tail(s), x)

\* Mutant of SortVec: equal ports are recorded once.
SortVecDedup(s) ==
    LET vals == {s[i] : i \in 1..Len(s)}
        Rank(v) == Cardinality({w \in vals : w < v}) + 1
    IN  [r \in 1..Cardinality(vals) |-> CHOOSE v \in vals : Rank(v) = r]

RECURSIVE SortVec(_)
SortVec(s) == IF s = <<>> THEN <<>> ELSE Insert(SortVec(SubSeq(s, 1, Len(s) - 1)), s[Len(s)])

Sort(st) == [open |-> SortVec(st.open), closed |-> SortVec(st.closed)]

IsSorted(s) == \A i \in 1..(Len(s) - 1) : s[i] <= s[i + 1]

NotRendered == [kind |-> "none", text |-> <<>>]
Written(text) == [kind |-> "ok", text |-> text]
FmtPanic == [kind |-> "panic", text |-> <<>>]

\* `now - prev` on u16: a negative difference traps when the build checks
\* overflow and wraps modulo 2^16 otherwise.
U16Sub(a, b, checks) ==
    IF a >= b THEN [ok |-> TRUE, val |-> a - b]
    ELSE IF checks THEN [ok |-> FALSE, val |-> 0]
    ELSE [ok |-> TRUE, val |-> (a - b) + (U16Max + 1)]

\* The loop of fmt_vec over the pairs (vec[idx - 1], vec[idx]), idx = 1 ..
\* len - 1 (0-based, as in the code), followed by its final write.  `out` is
\* what has been written, `start` the 0-based index where the current run
\* began.
RECURSIVE FmtVecLoop(_, _, _, _, _)
FmtVecLoop(vec, idx, start, out, checks) ==
    IF idx > Len(vec) - 1
    THEN IF start = Len(vec) - 1
         THEN Written(out \o ToDec(vec[start + 1]))
         ELSE Written(out \o ToDec(vec[start + 1]) \o <<"-">> \o ToDec(vec[Len(vec)]))
    ELSE LET prev == vec[idx]
             now == vec[idx + 1]
             diff == U16Sub(now, prev, checks)
         IN  IF ~diff.ok THEN FmtPanic
             ELSE IF diff.val > 1
             THEN IF start = idx - 1
                  THEN FmtVecLoop(vec, idx + 1, idx,
                                  out \o ToDec(prev) \o <<",">>, checks)
                  ELSE FmtVecLoop(vec, idx + 1, idx,
                                  out \o ToDec(vec[start + 1]) \o <<"-">>
                                      \o ToDec(prev) \o <<",">>, checks)
             ELSE FmtVecLoop(vec, idx + 1, start, out, checks)

\* fmt_vec: `vec.len() - 1` on an empty vector is out of range whatever the
\* build (a trap, or a wrapped index past the end).
FmtVec(vec, checks) ==
    IF vec = <<>> THEN FmtPanic ELSE FmtVecLoop(vec, 1, 0, <<>>, checks)

TextOpen == <<"o", "p", "e", "n", ":", " ">>
TextClosed == <<"c", "l", "o", "s", "e", "d", ":", " ">>
TextNone == <<"n", "o", "n", "e">>

\* impl Display for PortsStatus
Display(st, checks) ==
    LET o == IF st.open # <<>> THEN FmtVec(st.open, checks) ELSE Written(TextNone)
        c == IF st.closed # <<>> THEN FmtVec(st.closed, checks) ELSE Written(TextNone)
    IN  IF o.kind # "ok" THEN FmtPanic
        ELSE IF c.kind # "ok" THEN FmtPanic
        ELSE Written(TextOpen \o o.text \o <<";">> \o TextClosed \o c.text)

\* The ports the formatted statuses are made of.
FmtPorts == {1, 3, 4, 5, 9}

SortedVecs(n) == {s \in SeqsUpTo(FmtPorts, n) : IsSorted(s)}

FmtIdle == status = PortsStatusNew /\ rendered = NotRendered

\* A finalized status as scan returns it: both lists sorted, at most
\* MaxRecorded ports recorded in all.
FmtInit ==
    /\ status \in {[open |-> o, closed |-> c] :
                     o \in SortedVecs(MaxRecorded), c \in SortedVecs(MaxRecorded)}
    /\ Len(status.open) + Len(status.closed) <= MaxRecorded
    /\ rendered = NotRendered

FmtCall ==
    /\ rendered.kind = "none"
    /\ rendered' = Display(status, overflowChecks)
    /\ UNCHANGED <<status, overflowChecks>>

\* Display::fmt called again on the same status (it takes &self)
FmtAgain ==
    /\ rendered.kind # "none"
    /\ rendered' = Display(status, overflowChecks)
    /\ UNCHANGED <<status, overflowChecks>>

\* PortsStatus::sort called on the finalized status
SortCall ==
    /\ status' = Sort(status)
    /\ UNCHANGED <<rendered, overflowChecks>>

(***************************************************************************)
(* The environment: addresses, port sets, ICMP sockets                     *)
(***************************************************************************)
IpV4(h) == [fam |-> "v4", host |-> h]
IpV6(h) == [fam |-> "v6", host |-> h]

IPs == {IpV4(1), IpV4(2), IpV6(1)}

ScanPorts == {80, 81}

HasV4(as) == \E i \in 1..Len(as) : as[i].fam = "v4"
HasV6(as) == \E i \in 1..Len(as) : as[i].fam = "v6"

(***************************************************************************)
(* ScannerInner::create_pingers (scanner.rs) and PortScanner::new (main.rs)*)
(***************************************************************************)
NotBuilt == [kind |-> "none", by |-> "none", pinger4 |-> FALSE, pinger6 |-> FALSE,
             why |-> "none", tried |-> {}]
BuildErr(by, why, tried) ==
    [kind |-> "err", by |-> by, pinger4 |-> FALSE, pinger6 |-> FALSE,
     why |-> why, tried |-> tried]
BuildOk(by, p4, p6, tried) ==
    [kind |-> "ok", by |-> by, pinger4 |-> p4, pinger6 |-> p6,
     why |-> "none", tried |-> tried]

\* scanner.rs: `.then_some(Self::create_pinger(ICMP::V4)?)` evaluates its
\* argument, the `?` included, before then_some looks at the boolean: both
\* sockets are opened whatever the address list holds.
CreatePingers(as, ok4, ok6) ==
    IF ~ok4 THEN BuildErr("scanner.rs", "icmp4", {"v4"})
    ELSE IF ~ok6 THEN BuildErr("scanner.rs", "icmp6", {"v4", "v6"})
    ELSE IF ~HasV4(as) /\ ~HasV6(as)
         THEN BuildErr("scanner.rs", "NoSupportedAddressFamily", {"v4", "v6"})
    ELSE BuildOk("scanner.rs", HasV4(as), HasV6(as), {"v4", "v6"})

\* main.rs: the family test comes first, the sockets are opened as above.
MainNew(v4, v6, ok4, ok6) ==
    IF ~(v4 \/ v6) THEN BuildErr("main.rs", "NoSupportedAddressFamily", {})
    ELSE IF ~ok4 THEN BuildErr("main.rs", "icmp4", {"v4"})
    ELSE IF ~ok6 THEN BuildErr("main.rs", "icmp6", {"v4", "v6"})
    ELSE BuildOk("main.rs", v4, v6, {"v4", "v6"})

(***************************************************************************)
(* PortScanner::scan, ScannerInner::scan_ip, check_port, ping              *)
(***************************************************************************)
NoMsg == <<>>

ConnOutcomes == {"established", "refused", "timeout"}

\* check_port: `res` is Ok(Ok(stream)), Ok(Err(e)) or Err(Elapsed); the
\* flag returned is res.is_ok().
CheckPort(port, conn) == <<port, conn # "timeout">>

Unspawned == [st |-> "none", conn |-> "none", ret |-> <<>>]
Running == [st |-> "running", conn |-> "none", ret |-> <<>>]
Finished(port, conn) == [st |-> "done", conn |-> conn, ret |-> CheckPort(port, conn)]
Joined == [st |-> "joined", conn |-> "none", ret |-> <<>>]

\* let id = (idx % (u16::MAX as usize)) as u16, idx counted from 0
ProbeId(idx) == (idx % U16Max) % (U16Max + 1)

NoId == -1

\* List lengths and positions around the 16-bit boundary
SampleLens == {IdxSpread + 1} \cup (U16Max..(U16Max + 1 + IdxSpread))
SampleIdx == (0..IdxSpread) \cup ((U16Max - IdxSpread)..(U16Max + IdxSpread))

IdIdle ==
    /\ total = 0
    /\ pos = <<0, 0>>
    /\ ids = <<NoId, NoId>>

\* for (idx, ip) in self.addrs.iter().enumerate(): positions in ascending order
IdInit ==
    /\ total \in SampleLens
    /\ pos \in SampleIdx \X SampleIdx
    /\ pos[1] < pos[2]
    /\ pos[2] < total
    /\ ids = <<NoId, NoId>>

\* One iteration of the spawn loop, at the k-th followed position
SpawnAt(k) ==
    /\ ids[k] = NoId
    /\ k = 2 => ids[1] # NoId
    /\ ids' = [ids EXCEPT ![k] = ProbeId(pos[k])]
    /\ UNCHANGED <<total, pos>>

NoTask == [pc |-> "unspawned", probe |-> "pending", id |-> 0, k |-> 1]

\* ScannerInner::ping: the sender of the address's family, unwrapped
PingerFor(ip) == IF ip.fam = "v4" THEN built.pinger4 ELSE built.pinger6

Outcomes == IPs \X ScanPorts \X BOOLEAN

\* Mutant of MapRecord: the entry is inserted anew for each outcome.
MapRecordInsert(m, ip, port, open) ==
    IF ip \in DOMAIN m THEN [m EXCEPT ![ip] = Record(PortsStatusNew, port, open)]
    ELSE (ip :> Record(PortsStatusNew, port, open)) @@ m

\* map.entry(*ip).or_insert(PortsStatus::new(..)).record(port, open)
MapRecord(m, ip, port, open) ==
    IF ip \in DOMAIN m THEN [m EXCEPT ![ip] = Record(@, port, open)]
    ELSE (ip :> Record(PortsStatusNew, port, open)) @@ m

\* Mutant of MapSort: the statuses are returned in arrival order.
MapUnsorted(m) == m

\* for status in map.values_mut() { status.sort(); }
MapSort(m) == [ip \in DOMAIN m |-> Sort(m[ip])]

ScanIdle ==
    /\ built = NotBuilt
    /\ scanPc = "new"
    /\ next = 1
    /\ tasks = [i \in 1..Len(addrs) |-> NoTask]
    /\ handles = [i \in 1..Len(addrs) |-> [j \in 1..Len(ports) |-> Unspawned]]
    /\ chan = <<>>
    /\ senders = 0
    /\ rxOpen = FALSE
    /\ cur = NoMsg
    /\ calls = [o \in Outcomes |-> 0]
    /\ map = <<>>

EnvIdle == addrs = <<>> /\ ports = <<>> /\ icmp4ok = FALSE /\ icmp6ok = FALSE

EnvInit ==
    /\ addrs \in SeqsUpTo(IPs, MaxAddrs)
    /\ ports \in (SeqsUpTo(ScanPorts, MaxPorts) \ {<<>>})
    /\ Len(addrs) * Len(ports) <= MaxAttempts
    /\ icmp4ok \in BOOLEAN
    /\ icmp6ok \in BOOLEAN

\* PortScanner::new (scanner.rs): ScannerInner::new, then mpsc::channel
NewCall ==
    /\ built.kind = "none"
    /\ built' = CreatePingers(addrs, icmp4ok, icmp6ok)
    /\ IF built'.kind = "ok"
       THEN scanPc' = "spawn" /\ senders' = 1 /\ rxOpen' = TRUE
       ELSE UNCHANGED <<scanPc, senders, rxOpen>>
    /\ UNCHANGED <<next, tasks, handles, chan, cur, calls, map>>

\* PortScanner::new (main.rs), called from main with the two family tests
MainNewCall ==
    /\ built.kind = "none"
    /\ built' = MainNew(HasV4(addrs), HasV6(addrs), icmp4ok, icmp6ok)
    /\ UNCHANGED <<scanPc, next, tasks, handles, chan, senders, rxOpen, cur, calls, map>>

\* Mutant of SpawnAddr: the port tasks start with the address task, before
\* its probe is answered.
SpawnAddrEagerSweep ==
    /\ scanPc = "spawn"
    /\ next <= Len(addrs)
    /\ tasks' = [tasks EXCEPT ![next] = [pc |-> "ping", probe |-> "pending",
                                         id |-> ProbeId(next - 1), k |-> 1]]
    /\ handles' = [handles EXCEPT ![next] = [j \in 1..Len(ports) |-> Running]]
    /\ senders' = senders + 1
    /\ next' = next + 1
    /\ UNCHANGED <<built, scanPc, chan, rxOpen, cur, calls, map>>

\* scan: one iteration of the loop over addrs: tx.clone(), tokio::spawn
SpawnAddr ==
    /\ scanPc = "spawn"
    /\ next <= Len(addrs)
    /\ tasks' = [tasks EXCEPT ![next] = [pc |-> "ping", probe |-> "pending",
                                         id |-> ProbeId(next - 1), k |-> 1]]
    /\ senders' = senders + 1
    /\ next' = next + 1
    /\ UNCHANGED <<built, scanPc, handles, chan, rxOpen, cur, calls, map>>

\* Mutant of DropTx: the orchestrator keeps its own sender.
DropTxForgotten ==
    /\ scanPc = "spawn"
    /\ next > Len(addrs)
    /\ scanPc' = "recv"
    /\ UNCHANGED <<built, next, tasks, handles, chan, senders, rxOpen, cur, calls, map>>

\* scan: drop(tx) after the loop
DropTx ==
    /\ scanPc = "spawn"
    /\ next > Len(addrs)
    /\ senders' = senders - 1
    /\ scanPc' = "recv"
    /\ UNCHANGED <<built, next, tasks, handles, chan, rxOpen, cur, calls, map>>

\* Mutant of Ping: the task goes on to sweep the ports after a failed probe.
PingNoGate(i) ==
    /\ tasks[i].pc = "ping"
    /\ \E reply \in BOOLEAN :
         /\ tasks' = [tasks EXCEPT ![i].pc = "sweep",
                                   ![i].probe = IF reply THEN "reply" ELSE "none"]
         /\ handles' = [handles EXCEPT ![i] = [j \in 1..Len(ports) |-> Running]]
    /\ UNCHANGED <<built, scanPc, next, chan, senders, rxOpen, cur, calls, map>>

\* scan_ip: self.ping(ip, id).await completes.  None: the task returns and
\* its tx is dropped.  Some(rtt): one check_port task is spawned per port.
\* A missing sender makes the unwrap in ping panic, which ends the task.
Ping(i) ==
    /\ tasks[i].pc = "ping"
    /\ \E reply \in BOOLEAN :
         IF ~PingerFor(addrs[i])
         THEN /\ tasks' = [tasks EXCEPT ![i].pc = "panicked"]
              /\ senders' = senders - 1
              /\ UNCHANGED handles
         ELSE IF reply
         THEN /\ tasks' = [tasks EXCEPT ![i].pc = "sweep", ![i].probe = "reply"]
              /\ handles' = [handles EXCEPT ![i] = [j \in 1..Len(ports) |-> Running]]
              /\ UNCHANGED senders
         ELSE /\ tasks' = [tasks EXCEPT ![i].pc = "done", ![i].probe = "none"]
              /\ senders' = senders - 1
              /\ UNCHANGED handles
    /\ UNCHANGED <<built, scanPc, next, chan, rxOpen, cur, calls, map>>

\* Mutant of Connect: an attempt that timed out is made again.
ConnectRetry(i, j) ==
    /\ \/ handles[i][j].st = "running"
       \/ handles[i][j].st = "done" /\ handles[i][j].conn = "timeout"
    /\ \E conn \in ConnOutcomes :
         handles' = [handles EXCEPT ![i][j] = Finished(ports[j], conn)]
    /\ UNCHANGED <<built, scanPc, next, tasks, chan, senders, rxOpen, cur, calls, map>>

\* check_port: the connect attempt ends one way or another
Connect(i, j) ==
    /\ handles[i][j].st = "running"
    /\ \E conn \in ConnOutcomes :
         handles' = [handles EXCEPT ![i][j] = Finished(ports[j], conn)]
    /\ UNCHANGED <<built, scanPc, next, tasks, chan, senders, rxOpen, cur, calls, map>>

\* Mutant of Forward: outcomes are sent as the attempts finish.
ForwardAsCompleted(i) ==
    LET k == tasks[i].k
        last == k = Len(ports)
    IN  /\ tasks[i].pc = "sweep"
        /\ Len(chan) < ChanCap
        /\ \E j \in 1..Len(ports) :
             /\ handles[i][j].st = "done"
             /\ handles' = [handles EXCEPT ![i][j] = Joined]
             /\ chan' = Append(chan, <<addrs[i], handles[i][j].ret[1],
                                       handles[i][j].ret[2]>>)
        /\ tasks' = [tasks EXCEPT ![i].k = k + 1,
                                  ![i].pc = IF last THEN "done" ELSE "sweep"]
        /\ senders' = IF last THEN senders - 1 ELSE senders
        /\ UNCHANGED <<built, scanPc, next, rxOpen, cur, calls, map>>

\* Mutant of Forward: the address task gives up at the first closed port.
ForwardStopAtClosed(i) ==
    LET k == tasks[i].k
        last == k = Len(ports)
    IN  /\ tasks[i].pc = "sweep"
        /\ handles[i][k].st = "done"
        /\ Len(chan) < ChanCap
        /\ handles' = [handles EXCEPT ![i][k] = Joined]
        /\ IF handles[i][k].ret[2]
           THEN /\ chan' = Append(chan, <<addrs[i], handles[i][k].ret[1], TRUE>>)
                /\ tasks' = [tasks EXCEPT ![i].k = k + 1,
                                          ![i].pc = IF last THEN "done" ELSE "sweep"]
                /\ senders' = IF last THEN senders - 1 ELSE senders
           ELSE /\ tasks' = [tasks EXCEPT ![i].pc = "done"]
                /\ senders' = senders - 1
                /\ UNCHANGED chan
        /\ UNCHANGED <<built, scanPc, next, rxOpen, cur, calls, map>>

\* scan_ip: one iteration of `for h in handles`: h.await, then
\* tx.send(..).await, which waits for room in the channel and fails (the
\* unwrap panics) when the receiver is gone.  After the last iteration the
\* task returns and its tx is dropped.
Forward(i) ==
    LET k == tasks[i].k
        last == k = Len(ports)
    IN  /\ tasks[i].pc = "sweep"
        /\ handles[i][k].st = "done"
        /\ rxOpen => Len(chan) < ChanCap
        /\ handles' = [handles EXCEPT ![i][k] = Joined]
        /\ IF rxOpen
           THEN /\ chan' = Append(chan, <<addrs[i], handles[i][k].ret[1],
                                         handles[i][k].ret[2]>>)
                /\ tasks' = [tasks EXCEPT ![i].k = k + 1,
                                          ![i].pc = IF last THEN "done" ELSE "sweep"]
                /\ senders' = IF last THEN senders - 1 ELSE senders
           ELSE /\ tasks' = [tasks EXCEPT ![i].pc = "panicked"]
                /\ senders' = senders - 1
                /\ UNCHANGED chan
        /\ UNCHANGED <<built, scanPc, next, rxOpen, cur, calls, map>>

\* scan: rx.recv().await yields Some(outcome)
Recv ==
    /\ scanPc = "recv"
    /\ chan # <<>>
    /\ cur' = Head(chan)
    /\ chan' = Tail(chan)
    /\ scanPc' = "callback"
    /\ UNCHANGED <<built, next, tasks, handles, senders, rxOpen, calls, map>>

\* Mutant of Callback: the observer is not called for a closed port.
CallbackOpenOnly ==
    /\ scanPc = "callback"
    /\ calls' = IF cur[3] THEN [calls EXCEPT ![cur] = @ + 1] ELSE calls
    /\ scanPc' = "record"
    /\ UNCHANGED <<built, next, tasks, handles, chan, senders, rxOpen, cur, map>>

\* scan: (self.on_checked)(ip, port, open)
Callback ==
    /\ scanPc = "callback"
    /\ calls' = [calls EXCEPT ![cur] = @ + 1]
    /\ scanPc' = "record"
    /\ UNCHANGED <<built, next, tasks, handles, chan, senders, rxOpen, cur, map>>

\* scan: map.entry(*ip).or_insert(..).record(port, open)
RecordOutcome ==
    /\ scanPc = "record"
    /\ map' = MapRecord(map, cur[1], cur[2], cur[3])
    /\ cur' = NoMsg
    /\ scanPc' = "recv"
    /\ UNCHANGED <<built, next, tasks, handles, chan, senders, rxOpen, calls>>

\* Mutant of Finish: the consumer stops at an empty queue without waiting
\* for the senders to be dropped.
FinishOnEmpty ==
    /\ scanPc = "recv"
    /\ chan = <<>>
    /\ map' = MapSort(map)
    /\ scanPc' = "returned"
    /\ rxOpen' = FALSE
    /\ UNCHANGED <<built, next, tasks, handles, chan, senders, cur, calls>>

\* scan: rx.recv().await yields None (no sender left, nothing queued); every
\* status is sorted and the map returned, which drops rx.
Finish ==
    /\ scanPc = "recv"
    /\ chan = <<>>
    /\ senders = 0
    /\ map' = MapSort(map)
    /\ scanPc' = "returned"
    /\ rxOpen' = FALSE
    /\ UNCHANGED <<built, next, tasks, handles, chan, senders, cur, calls>>

(***************************************************************************)
(* Specifications                                                          *)
(***************************************************************************)
ParseNext == ParseCall /\ UNCHANGED <<fmtVars, envVars, scanVars, idVars>>

InitParse ==
    ParseInit /\ FmtIdle /\ EnvIdle /\ ScanIdle /\ IdIdle /\ overflowChecks \in BOOLEAN

SpecParse == InitParse /\ [][ParseNext]_vars

fmtFrame == <<parseVars, envVars, scanVars, idVars>>

FmtNext ==
    \/ FmtCall /\ UNCHANGED fmtFrame
    \/ FmtAgain /\ UNCHANGED fmtFrame
    \/ SortCall /\ UNCHANGED fmtFrame

InitFmt ==
    FmtInit /\ ParseIdle /\ EnvIdle /\ ScanIdle /\ IdIdle /\ overflowChecks \in BOOLEAN

SpecFmt == InitFmt /\ [][FmtNext]_vars

Init ==
    EnvInit /\ ScanIdle /\ ParseIdle /\ FmtIdle /\ IdIdle /\ overflowChecks = FALSE

scanFrame == <<overflowChecks, parseVars, fmtVars, envVars, idVars>>

Next ==
    \/ NewCall /\ UNCHANGED scanFrame
    \/ MainNewCall /\ UNCHANGED scanFrame
    \/ SpawnAddr /\ UNCHANGED scanFrame
    \/ DropTx /\ UNCHANGED scanFrame
    \/ \E i \in 1..Len(addrs) : Ping(i) /\ UNCHANGED scanFrame
    \/ \E i \in 1..Len(addrs) : \E j \in 1..Len(ports) : Connect(i, j) /\ UNCHANGED scanFrame
    \/ \E i \in 1..Len(addrs) : Forward(i) /\ UNCHANGED scanFrame
    \/ Recv /\ UNCHANGED scanFrame
    \/ Callback /\ UNCHANGED scanFrame
    \/ RecordOutcome /\ UNCHANGED scanFrame
    \/ Finish /\ UNCHANGED scanFrame

Spec == Init /\ [][Next]_vars

\* Every probe and every connect attempt ends, the callback returns and the
\* runtime keeps running the tasks that can run.
FairSpec == Spec /\ WF_vars(Next)

idFrame == <<overflowChecks, parseVars, fmtVars, envVars, scanVars>>

IdNext == \E k \in 1..2 : SpawnAt(k) /\ UNCHANGED idFrame

InitId ==
    IdInit /\ ParseIdle /\ FmtIdle /\ EnvIdle /\ ScanIdle /\ overflowChecks = FALSE

SpecId == InitId /\ [][IdNext]_vars

(***************************************************************************)
(* Claims about Ports::from_str (checked under SpecParse)                  *)
(***************************************************************************)
HasInvertedRange(ts) ==
    \E i \in 1..Len(ts) :
        ts[i].kind = "range" /\ ts[i].lo > ts[i].hi /\ ts[i].lo <= U16Max

\* C4: from_str on a well-formed specification (16-bit ports and ranges
\* lower-upper with lower <= upper) returns the concatenation, in token
\* order, of each token's expansion, nothing deduplicated or sorted.
C4_WellFormedParsesToExpansions ==
    (parsed.kind # "none" /\ WellFormed(toks))
        => parsed = ParseOk(Expansions(toks))

\* C5: from_str on a specification holding a range lower-upper with
\* lower > upper ends with a parse error returned to the caller.
C5_InvertedRangeIsReturnedError ==
    (parsed.kind # "none" /\ HasInvertedRange(toks)) => parsed.kind = "err"

\* C6: every range lower-upper of 16-bit values with lower <= upper, the
\* range 0-65535 included, is accepted and expands to upper - lower + 1
\* ports in ascending order, the size staying within 16 bits.
C6_EveryRangeAccepted ==
    (/\ parsed.kind # "none"
     /\ Len(toks) = 1
     /\ toks[1].kind = "range"
     /\ WellFormedTok(toks[1]))
        => /\ parsed.kind = "ok"
           /\ Len(parsed.ports) = toks[1].hi - toks[1].lo + 1
           /\ \A i \in 1..Len(parsed.ports) : parsed.ports[i] = toks[1].lo + i - 1

(***************************************************************************)
(* Claims about the formatter (checked under SpecFmt)                      *)
(***************************************************************************)
\* The last index of the maximal run of consecutive values starting at i.
RECURSIVE RunEnd(_, _)
RunEnd(s, i) ==
    IF i < Len(s) /\ s[i + 1] = s[i] + 1 THEN RunEnd(s, i + 1) ELSE i

\* The rendering the specification describes: one token per maximal run of
\* consecutive integer values, `lo-hi` for a run of two or more ports and a
\* bare number for an isolated port, separated by commas.
RECURSIVE RenderRuns(_, _)
RenderRuns(s, i) ==
    LET j == RunEnd(s, i)
        tok == IF j = i THEN ToDec(s[i]) ELSE ToDec(s[i]) \o <<"-">> \o ToDec(s[j])
    IN  IF j = Len(s) THEN tok ELSE tok \o <<",">> \o RenderRuns(s, j + 1)

RenderList(s) == IF s = <<>> THEN TextNone ELSE RenderRuns(s, 1)

\* C7: a sorted list (repeats allowed) is rendered as its maximal runs of
\* consecutive values, an isolated port as a bare number, the empty list as
\* "none"; the open ports come first, then the closed ports.
C7_ListsRenderedAsRuns ==
    rendered.kind # "none"
        => rendered = Written(TextOpen \o RenderList(status.open) \o <<";">>
                              \o TextClosed \o RenderList(status.closed))

(***************************************************************************)
(* Claims about construction and scan (checked under Spec and FairSpec)    *)
(***************************************************************************)
Positions == 1..Len(addrs)

Returned == scanPc = "returned"

\* How many occurrences of ip in the target list had their probe answered.
Replied(ip) ==
    Cardinality({i \in Positions : addrs[i] = ip /\ tasks[i].probe = "reply"})

Recorded(ip, p) ==
    IF ip \in DOMAIN map THEN Count(map[ip].open, p) + Count(map[ip].closed, p) ELSE 0

RECURSIVE SumOver(_, _)
SumOver(f, S) ==
    IF S = {} THEN 0
    ELSE LET x == CHOOSE y \in S : TRUE IN f[x] + SumOver(f, S \ {x})

\* Outcomes handed to the channel so far, and outcomes folded into the map.
TotalSent ==
    SumOver([i \in Positions |-> IF tasks[i].pc = "unspawned" THEN 0 ELSE tasks[i].k - 1],
            Positions)
TotalFolded ==
    SumOver([ip \in DOMAIN map |-> Len(map[ip].open) + Len(map[ip].closed)], DOMAIN map)

\* C1 (as stated): for an address whose probe returned None no connect
\* attempt is started for that address and the returned map has no key for
\* that address.
C1_FailedProbeAddressAbsent ==
    \A i \in Positions :
        tasks[i].probe = "none"
            => /\ \A i2 \in Positions : addrs[i2] = addrs[i]
                     => \A j \in 1..Len(ports) : handles[i2][j] = Unspawned
               /\ Returned => addrs[i] \notin DOMAIN map

\* C1 (amended): an address task whose probe returned None starts no connect
\* attempt and sends nothing, and the map never has a key for an address
\* none of whose occurrences in the target list had its probe answered.
C1_FailedProbeTaskSilent ==
    /\ \A i \in Positions :
           tasks[i].probe = "none"
               => /\ \A j \in 1..Len(ports) : handles[i][j] = Unspawned
                  /\ tasks[i].k = 1
    /\ \A ip \in IPs : Replied(ip) = 0
           => /\ ip \notin DOMAIN map
              /\ \A m \in 1..Len(chan) : chan[m][1] # ip
              /\ cur # NoMsg => cur[1] # ip

C1_Witness ==
    /\ Returned
    /\ DOMAIN map # {}
    /\ \E i \in Positions : tasks[i].probe = "none" /\ addrs[i] \notin DOMAIN map

\* C2 (as stated): at return, for every address that passed the probe, each
\* port of the PortSet is in exactly one of the open and the closed list,
\* as often as it occurs in the PortSet.
C2_EachPortInExactlyOneList ==
    Returned =>
        \A i \in Positions :
            tasks[i].probe = "reply"
                => /\ addrs[i] \in DOMAIN map
                   /\ \A p \in ScanPorts :
                        LET n == Count(ports, p)
                            o == Count(map[addrs[i]].open, p)
                            c == Count(map[addrs[i]].closed, p)
                        IN  (o = n /\ c = 0) \/ (o = 0 /\ c = n)

\* C2 (amended): at return, an address that passed the probe in j >= 1 of
\* its occurrences has an entry in which every port p is recorded, over the
\* open and the closed list together, j times as often as it occurs in the
\* PortSet: each connect attempt is recorded in exactly one list.
C2_EachAttemptInExactlyOneList ==
    Returned =>
        \A ip \in IPs :
            Replied(ip) >= 1
                => /\ ip \in DOMAIN map
                   /\ \A p \in ScanPorts : Recorded(ip, p) = Replied(ip) * Count(ports, p)

C2_Witness ==
    /\ Returned
    /\ \E ip \in DOMAIN map : \E p \in ScanPorts :
          /\ Count(ports, p) = 2
          /\ Count(map[ip].open, p) = 1
          /\ Count(map[ip].closed, p) = 1

\* C3: the flag check_port returns is true if and only if the connection
\* was established within the timeout; a refused or failed connect and an
\* elapsed deadline are reported closed.
C3_OpenIffEstablished ==
    \A i \in Positions : \A j \in 1..Len(ports) :
        handles[i][j].st = "done"
            => handles[i][j].ret = <<ports[j], handles[i][j].conn = "established">>

\* The senders the address list needs can be created.
NeededSendersOk == (HasV4(addrs) => icmp4ok) /\ (HasV6(addrs) => icmp6ok)

NoTaskSpawned ==
    /\ \A i \in Positions : tasks[i].pc = "unspawned"
    /\ \A i \in Positions : \A j \in 1..Len(ports) : handles[i][j] = Unspawned

\* C8: construction fails with NoSupportedAddressFamily when the address
\* list is empty, before any task is spawned, and succeeds for every
\* non-empty list whose needed ICMP senders can be created.
C8_ConstructionOutcome ==
    built.kind # "none"
        => /\ addrs = <<>>
                => /\ built.kind = "err"
                   /\ built.why = "NoSupportedAddressFamily"
                   /\ NoTaskSpawned
           /\ (addrs # <<>> /\ NeededSendersOk) => built.kind = "ok"

\* C9: the ICMP-v4 sender is created if and only if the list holds a v4
\* address, the v6 sender if and only if it holds a v6 address; a list of
\* one family does not depend on the other family's socket, and every probe
\* finds the sender of its family.
C9_SendersFollowFamilies ==
    /\ built.kind # "none"
           => /\ ("v4" \in built.tried) <=> HasV4(addrs)
              /\ ("v6" \in built.tried) <=> HasV6(addrs)
              /\ (addrs # <<>> /\ NeededSendersOk) => built.kind = "ok"
    /\ built.kind = "ok"
           => /\ built.pinger4 <=> HasV4(addrs)
              /\ built.pinger6 <=> HasV6(addrs)
    /\ \A i \in Positions : tasks[i].pc # "panicked"

\* A producer that has an outcome to send and finds the channel full.
Blocked(i) ==
    /\ i \in DOMAIN tasks
    /\ tasks[i].pc = "sweep"
    /\ handles[i][tasks[i].k].st = "done"
    /\ Len(chan) >= ChanCap

\* C10: once constructed, scan eventually returns; a producer blocked on the
\* full channel is eventually unblocked; the consumer loop ends only when
\* every sender is dropped and the channel is empty; and at return every
\* outcome sent has been received and folded into the map.
C10_ScanReturns ==
    /\ (scanPc = "spawn") ~> Returned
    /\ \A i \in 1..MaxAddrs : Blocked(i) ~> ~Blocked(i)
    /\ [][(scanPc # "returned" /\ scanPc' = "returned")
             => (senders = 0 /\ chan = <<>> /\ cur = NoMsg)]_vars
    /\ [](Returned => /\ senders = 0
                      /\ chan = <<>>
                      /\ cur = NoMsg
                      /\ \A i \in Positions : tasks[i].pc = "done"
                      /\ TotalFolded = TotalSent)

C10_Witness ==
    /\ Returned
    /\ TotalSent > ChanCap
    /\ TotalFolded = TotalSent
    /\ Cardinality(DOMAIN map) >= 2

\* How often the outcome o is in the lists of the map.
Folded(o) ==
    IF o[1] \in DOMAIN map
    THEN IF o[3] THEN Count(map[o[1]].open, o[2]) ELSE Count(map[o[1]].closed, o[2])
    ELSE 0

TotalCalls == SumOver(calls, Outcomes)

\* C11: on_checked is called exactly once for every outcome received, with
\* the outcome's values, and before the outcome is folded into the status;
\* at return the calls, the outcomes sent and the entries of the map are
\* equally many.
C11_CallbackOncePerOutcome ==
    /\ \A o \in Outcomes :
           calls[o] = Folded(o) + (IF scanPc = "record" /\ cur = o THEN 1 ELSE 0)
    /\ scanPc = "callback" => cur # NoMsg
    /\ Returned => (TotalCalls = TotalSent /\ TotalCalls = TotalFolded)

C11_Witness ==
    /\ Returned
    /\ TotalCalls >= 3
    /\ \E o \in Outcomes : calls[o] = 2

\* C12: in the returned map every open and every closed list is in
\* non-decreasing order and holds exactly the outcomes recorded for the
\* address, whatever order they arrived in; the statuses are sorted in the
\* step that ends the drained loop, and nothing is recorded afterwards.
C12_ReturnedListsSorted ==
    /\ [](Returned =>
            \A ip \in DOMAIN map :
                /\ IsSorted(map[ip].open)
                /\ IsSorted(map[ip].closed)
                /\ \A p \in ScanPorts :
                     /\ Count(map[ip].open, p) = calls[<<ip, p, TRUE>>]
                     /\ Count(map[ip].closed, p) = calls[<<ip, p, FALSE>>])
    /\ [][(scanPc # "returned" /\ scanPc' = "returned")
             => /\ chan = <<>> /\ senders = 0 /\ cur = NoMsg
                /\ DOMAIN map' = DOMAIN map
                /\ \A ip \in DOMAIN map : \A p \in ScanPorts :
                     /\ Count(map'[ip].open, p) = Count(map[ip].open, p)
                     /\ Count(map'[ip].closed, p) = Count(map[ip].closed, p)]_vars
    /\ [][scanPc = "returned" => map' = map]_vars

\* The ports 81 and 80 arrived in that order and are returned as 80, 81.
C12_Witness ==
    /\ Returned
    /\ ports = <<81, 80>>
    /\ \E ip \in DOMAIN map : map[ip].closed = <<80, 81>>

(***************************************************************************)
(* Idempotence of sort and of the formatter (checked under SpecFmt)        *)
(***************************************************************************)
\* C13: sorting an already sorted status leaves both lists as they are, and
\* formatting a sorted status again writes the same text and leaves the
\* status as it is.
C13_SortAndFormatIdempotent ==
    /\ [](Sort(status) = status)
    /\ [](rendered.kind # "none" => rendered = Display(Sort(status), overflowChecks))
    /\ [][status' = status /\ (rendered.kind # "none" => rendered' = rendered)]_vars

C13_Witness ==
    /\ rendered.kind = "ok"
    /\ status.open = <<3, 3, 4>>
    /\ status.closed = <<1, 9>>

(***************************************************************************)
(* Claims about the probe identifiers (checked under SpecId)               *)
(***************************************************************************)
\* C14: the identifier given to the address at index i is i mod 65536, and
\* in a list of at most 65536 addresses two different positions never get
\* the same identifier.
C14_IdIsIndexTruncated ==
    /\ \A k \in 1..2 : ids[k] # NoId => ids[k] = pos[k] % (U16Max + 1)
    /\ (total <= U16Max + 1 /\ ids[1] # NoId /\ ids[2] # NoId) => ids[1] # ids[2]

(***************************************************************************)
(* Ordering of probe, connect attempts and sends (checked under Spec)      *)
(***************************************************************************)
\* C15: a connect attempt to an address exists (running, finished or
\* joined) only when that address task's probe has been answered; while the
\* probe is pending or has failed, none of its port tasks has begun.
C15_ProbeBeforePortTasks ==
    \A i \in DOMAIN tasks : \A j \in 1..Len(ports) :
        /\ handles[i][j].st # "none" => tasks[i].probe = "reply"
        /\ tasks[i].pc \in {"unspawned", "ping"} => handles[i][j].st = "none"

\* No order between addresses or between the ports of one address: the
\* second address is being swept, its second port finished before its
\* first, while the first address is still waiting for its probe.
C15_Witness ==
    /\ Len(addrs) = 2
    /\ Len(ports) = 2
    /\ tasks[1].pc = "ping"
    /\ tasks[2].probe = "reply"
    /\ handles[2][1].st = "running"
    /\ handles[2][2].st = "done"

HandleRank(h) ==
    CASE h.st = "none" -> 0
      [] h.st = "running" -> 1
      [] h.st = "done" -> 2
      [] h.st = "joined" -> 3

Attempts == {ij \in Positions \X (1..Len(ports)) : handles[ij[1]][ij[2]].st # "none"}

LiveAddrTasks == {i \in Positions : tasks[i].pc \in {"ping", "sweep"}}

OwnSender == IF scanPc = "spawn" THEN 1 ELSE 0

\* C16 (as stated): the outcome of an attempt is in the channel before the
\* attempt's task exits, no attempt having exited with its outcome still
\* unsent, and every running port task holds a sender of its own.
C16_OutcomeSentBeforeAttemptExits ==
    /\ \A ij \in Attempts : handles[ij[1]][ij[2]].st # "done"
    /\ senders = OwnSender + Cardinality(LiveAddrTasks)
                   + Cardinality({ij \in Attempts : handles[ij[1]][ij[2]].st = "running"})

\* C16 (amended): no attempt is made again and every attempt yields exactly
\* one outcome: a port task only moves from running to finished to joined,
\* keeps its result until the address task joins it, and the join is the one
\* step that appends its outcome to the channel; nothing else appends.  The
\* senders are the orchestrator's and the live address tasks' only, and at
\* return every attempt's outcome has been sent.
C16_OneOutcomePerAttemptNoRetry ==
    /\ [][\A i \in Positions : \A j \in 1..Len(ports) :
            LET h == handles[i][j]
                h2 == handles'[i][j]
            IN  /\ HandleRank(h2) \in {HandleRank(h), HandleRank(h) + 1}
                /\ (h.st = "done" /\ h2.st = "done") => h2 = h
                /\ (h.st = "done" /\ h2.st = "joined")
                      => /\ tasks[i].pc = "sweep"
                         /\ chan' = Append(chan, <<addrs[i], ports[j], h.ret[2]>>)]_vars
    /\ [][Len(chan') > Len(chan)
            => Cardinality({ij \in Attempts :
                              /\ handles[ij[1]][ij[2]].st = "done"
                              /\ handles'[ij[1]][ij[2]].st = "joined"}) = 1]_vars
    /\ [](scanPc # "new" => senders = OwnSender + Cardinality(LiveAddrTasks))
    /\ [](Returned => /\ \A ij \in Attempts : handles[ij[1]][ij[2]].st = "joined"
                      /\ TotalSent = Cardinality(Attempts))

\* A port task has exited with its outcome, which is not in the channel
\* yet, while a later port of the same address is still being tried.
C16_Witness ==
    \E i \in Positions :
        /\ Len(ports) = 2
        /\ handles[i][1].st = "done"
        /\ handles[i][1].conn = "timeout"
        /\ handles[i][2].st = "running"
        /\ senders = 1
        /\ chan = <<>>

(***************************************************************************)
(* The channel stays open for its producers (checked under Spec)           *)
(***************************************************************************)
\* C17: whenever an address task is alive, and so whenever one executes
\* tx.send, the receiver is open; the receiver is released only by the
\* consumer loop having seen the channel closed, with no sender left, no
\* address task alive and nothing queued; no task ever panics on the unwrap
\* of a send.
C17_SendNeverFails ==
    /\ [](LiveAddrTasks # {} => rxOpen)
    /\ [](\A i \in Positions : tasks[i].pc # "panicked")
    /\ [][\A i \in Positions :
            (tasks[i].pc = "sweep" /\ tasks'[i] # tasks[i])
                => (rxOpen /\ Len(chan') = Len(chan) + 1)]_vars
    /\ [][(rxOpen /\ ~rxOpen')
            => (scanPc = "recv" /\ senders = 0 /\ LiveAddrTasks = {} /\ chan = <<>>)]_vars

\* The last live producer is about to send its last outcome, the
\* orchestrator having dropped its own sender already.
C17_Witness ==
    \E i \in Positions :
        /\ tasks[i].pc = "sweep"
        /\ tasks[i].k = Len(ports)
        /\ handles[i][tasks[i].k].st = "done"
        /\ scanPc = "recv"
        /\ senders = 1
        /\ rxOpen

(***************************************************************************)
(* Failures are absorbed (checked under FairSpec)                          *)
(***************************************************************************)
ProbeFails(i) == tasks[i].probe = "pending" /\ tasks'[i].probe = "none"

ConnectFails(i, j) ==
    /\ handles[i][j].st = "running"
    /\ handles'[i][j].st = "done"
    /\ handles'[i][j].conn # "established"

OthersUntouched(i) ==
    /\ \A i2 \in Positions \ {i} : tasks'[i2] = tasks[i2] /\ handles'[i2] = handles[i2]
    /\ map' = map
    /\ chan' = chan
    /\ scanPc' = scanPc
    /\ rxOpen' = rxOpen

\* C18: the step in which a probe fails, or a connect attempt times out or
\* is refused, ends no other task and changes nothing recorded; no task
\* panics; the scan still returns, and at return every address whose probe
\* was answered has been swept to the end, each of its ports recorded once
\* per answered occurrence of the address.
C18_FailuresAbsorbed ==
    /\ [][\A i \in Positions :
            /\ ProbeFails(i) => (OthersUntouched(i) /\ tasks'[i].pc = "done")
            /\ \A j \in 1..Len(ports) :
                 ConnectFails(i, j) => (OthersUntouched(i) /\ tasks'[i] = tasks[i])]_vars
    /\ [](\A i \in Positions : tasks[i].pc # "panicked")
    /\ [](Returned =>
            \A i \in Positions :
                tasks[i].probe = "reply"
                    => /\ tasks[i].pc = "done"
                       /\ tasks[i].k = Len(ports) + 1
                       /\ \A j \in 1..Len(ports) :
                            Recorded(addrs[i], ports[j])
                                = Replied(addrs[i]) * Count(ports, ports[j]))
    /\ \A i \in 1..MaxAddrs :
         (i \in DOMAIN tasks /\ tasks[i].probe = "none") ~> Returned
    /\ (\E ij \in Attempts : handles[ij[1]][ij[2]].conn \in {"refused", "timeout"})
          ~> Returned

\* The first address's probe failed and every connect to the second, a
\* different address, timed out; the scan returned a map holding the second
\* address only, with both ports recorded closed.
C18_Witness ==
    /\ Returned
    /\ Len(addrs) = 2
    /\ Len(ports) = 2
    /\ addrs[1] # addrs[2]
    /\ tasks[1].probe = "none"
    /\ tasks[2].probe = "reply"
    /\ DOMAIN map = {addrs[2]}
    /\ Len(map[addrs[2]].closed) = 2

(***************************************************************************)
(* Order of the sends of one address task (checked under Spec)             *)
(***************************************************************************)
RECURSIVE PortsOf(_, _)
\* The ports of the outcomes of address ip in a sequence of outcomes.
PortsOf(msgs, ip) ==
    IF msgs = <<>> THEN <<>>
    ELSE IF Head(msgs)[1] = ip THEN <<Head(msgs)[2]>> \o PortsOf(Tail(msgs), ip)
    ELSE PortsOf(Tail(msgs), ip)

\* The outcomes sent and not folded yet, oldest first.
InFlight == (IF cur = NoMsg THEN <<>> ELSE <<cur>>) \o chan

ListedOnce(i) == Cardinality({i2 \in Positions : addrs[i2] = addrs[i]}) = 1

\* C19: an address task sends its outcomes in PortSet order: the outcome of
\* position p is sent only when every earlier position has finished and been
\* sent, whichever attempt finished first; what is in flight to the consumer
\* for an address listed once is a run of consecutive PortSet positions in
\* order; and the task drops its sender only with its last outcome sent.
C19_SentInPortSetOrder ==
    /\ [](\A i \in Positions : \A j \in 1..Len(ports) :
            tasks[i].probe = "reply" => (handles[i][j].st = "joined" <=> j < tasks[i].k))
    /\ [][\A i \in Positions :
            tasks'[i].k # tasks[i].k
                => /\ tasks'[i].k = tasks[i].k + 1
                   /\ handles[i][tasks[i].k].st = "done"
                   /\ chan' = Append(chan, <<addrs[i], ports[tasks[i].k],
                                             handles[i][tasks[i].k].ret[2]>>)]_vars
    /\ [](\A i \in Positions :
            ListedOnce(i)
                => LET sent == PortsOf(InFlight, addrs[i])
                   IN  /\ Len(sent) < tasks[i].k
                       /\ sent = SubSeq(ports, tasks[i].k - Len(sent), tasks[i].k - 1))
    /\ [][\A i \in Positions :
            (tasks[i].pc = "sweep" /\ tasks'[i].pc # "sweep")
                => /\ tasks[i].k = Len(ports)
                   /\ senders' = senders - 1
                   /\ \A j \in 1..Len(ports) : handles'[i][j].st = "joined"]_vars

\* The attempt at the second position finished first and is withheld: the
\* first is still running, nothing was sent and the consumer waits at an
\* empty channel.
C19_Witness ==
    \E i \in Positions :
        /\ Len(ports) = 2
        /\ tasks[i].k = 1
        /\ handles[i][1].st = "running"
        /\ handles[i][2].st = "done"
        /\ scanPc = "recv"
        /\ chan = <<>>
        /\ cur = NoMsg

(***************************************************************************)
(* The map is keyed by address value (checked under Spec)                  *)
(***************************************************************************)
Occurrences(ip) == Cardinality({i \in Positions : addrs[i] = ip})

\* C20: at return the map has one entry per address value with at least one
\* answered occurrence in the target list and none for any other address;
\* the entry of an address with j answered occurrences holds j * |PortSet|
\* recorded ports (the PortSet being non-empty), so an address listed once
\* has exactly |PortSet| recorded ports if its probe was answered.
C20_MapKeyedByAddressValue ==
    Returned =>
        /\ Len(ports) >= 1
        /\ \A ip \in IPs :
            /\ ip \in DOMAIN map <=> Replied(ip) >= 1
            /\ Replied(ip) <= Occurrences(ip)
            /\ ip \in DOMAIN map
                 => Len(map[ip].open) + Len(map[ip].closed) = Replied(ip) * Len(ports)
        /\ DOMAIN map \subseteq IPs

\* The same address is listed twice, both probes were answered, and its
\* single entry holds the outcomes of both sweeps.
C20_Witness ==
    /\ Returned
    /\ Len(addrs) = 2
    /\ addrs[1] = addrs[2]
    /\ Len(ports) = 2
    /\ Replied(addrs[1]) = 2
    /\ DOMAIN map = {addrs[1]}
    /\ Len(map[addrs[1]].open) + Len(map[addrs[1]].closed) = 4

=============================================================================
